---- MODULE Spec2Model ----
(***************************************************************************)
(* Model of the Babel -> Python SDK generator                              *)
(* (dropbox-v2/server-validators/python_json.babelg.py) and of the Python  *)
(* classes it emits.                                                       *)
(*                                                                         *)
(* An emitted line is a record [ind, code]: ind is the indentation depth   *)
(* (one per enclosing with self.indent()), code is a tuple whose first   *)
(* element is the format template of the emit_line call in the source and  *)
(* whose other elements are the format arguments, in order.  The emitted   *)
(* classes are run by a small interpreter of exactly those templates.      *)
(* Python values are written as their repr: "None", "True", "1", ...       *)
(***************************************************************************)
EXTENDS Naturals, Sequences, FiniteSets, TLC

VARIABLES
    api,      \* the schema model of one namespace: [data_types, routes]
    out,      \* lines emitted so far for the namespace
    pc,       \* position of _generate_base_namespace_module
    gen_err,  \* exception that aborted generation, or None
    obj,      \* an instance of an emitted class: [cls, d], d its attributes
    last,     \* the last call made on obj, with its outcome
    prev,     \* attributes of obj before the last call
    doc,      \* docf: current value of the local variable doc
    doc_in,   \* docf: the argument
    doc_it,   \* docf: matches of finditer not yet visited
    doc_pc,   \* docf: "loop", "returned" or "raised"
    module,   \* the classes of the imported module, by name
    synth,    \* _determine_validator_type: the calls in progress
    self_lineno, \* the emitter's line counter (self.lineno)
    earlier   \* the run of generate before this one: its number and output

vars == <<api, out, pc, gen_err, obj, last, prev, doc, doc_in, doc_it, doc_pc, module,
          synth, self_lineno, earlier>>

None == "None"

(***************************************************************************)
(* Strings as sequences of one-character strings.                          *)
(***************************************************************************)
\* the backquote character (a string of the module cannot hold one)
BQ == "BQ"

RECURSIVE Join(_)
Join(cs) == IF cs = <<>> THEN "" ELSE Head(cs) \o Join(Tail(cs))

\* s[i..] starts with p
StartsWithAt(s, i, p) ==
    /\ i + Len(p) - 1 <= Len(s)
    /\ \A k \in 1..Len(p) : s[i + k - 1] = p[k]

\* str.replace(old, new): every non-overlapping occurrence, left to right
RECURSIVE ReplaceFrom(_, _, _, _)
ReplaceFrom(s, i, old, new) ==
    IF i > Len(s) THEN <<>>
    ELSE IF StartsWithAt(s, i, old)
         THEN new \o ReplaceFrom(s, i + Len(old), old, new)
         ELSE <<s[i]>> \o ReplaceFrom(s, i + 1, old, new)

Replace(s, old, new) == ReplaceFrom(s, 1, old, new)

\* val.rsplit(' ', 1): a list of two strings, or of one when val has no space
rsplit(val) ==
    LET sp == {i \in 1..Len(val) : val[i] = " "} IN
    IF sp = {} THEN <<val>>
    ELSE LET k == CHOOSE i \in sp : \A j \in sp : j <= i
         IN <<SubSeq(val, 1, k - 1), SubSeq(val, k + 1, Len(val))>>

(***************************************************************************)
(* doc_sub_tag_re: a colon, the tag [A-z]*, a colon, a backquote, the      *)
(* value .*? (lazy), a backquote.                                          *)
(* The class [A-z] is the ASCII range 0x41..0x7A: the letters and the six  *)
(* characters between Z and a, the backquote among them; the colon is not  *)
(* in it, so the greedy tag is the maximal run.  A dot matches anything but *)
(* a newline.                                                              *)
(***************************************************************************)
Letters == {"a", "b", "c", "d", "e", "h", "i", "k", "l", "n", "o", "p",
            "r", "s", "t", "u", "v", "x", "A", "B", "C"}

InAz(c) == c \in Letters \cup {"[", "\\", "]", "^", "_", BQ}

\* end of the maximal run of [A-z] characters starting at i (i - 1 if none)
RECURSIVE RunEnd(_, _)
RunEnd(s, i) == IF i <= Len(s) /\ InAz(s[i]) THEN RunEnd(s, i + 1) ELSE i - 1

\* the match starting exactly at i, as [from, to, tag, val], or <<>>
MatchAt(s, i) ==
    IF i > Len(s) \/ s[i] # ":" THEN <<>>
    ELSE LET e == RunEnd(s, i + 1)
             close == {j \in (e + 3)..Len(s) :
                          /\ s[j] = BQ
                          /\ \A k \in (e + 3)..(j - 1) : s[k] \notin {BQ, "\n"}}
         IN IF e + 2 <= Len(s) /\ s[e + 1] = ":" /\ s[e + 2] = BQ /\ close # {}
            THEN LET j == CHOOSE x \in close : TRUE
                 IN << [text |-> SubSeq(s, i, j),
                        tag  |-> SubSeq(s, i + 1, e),
                        val  |-> SubSeq(s, e + 3, j - 1)] >>
            ELSE <<>>

\* doc_sub_tag_re.finditer(s): the non-overlapping matches, left to right
RECURSIVE finditer(_, _)
finditer(s, i) ==
    IF i > Len(s) THEN <<>>
    ELSE LET m == MatchAt(s, i)
         IN IF m = <<>> THEN finditer(s, i + 1)
            ELSE m \o finditer(s, i + Len(m[1].text))

\* self.lang.format_obj on a str: its repr
format_obj_str(val) == <<"'">> \o val \o <<"'">>

T_struct == <<"s", "t", "r", "u", "c", "t">>
T_route  == <<"r", "o", "u", "t", "e">>
T_link   == <<"l", "i", "n", "k">>
T_val    == <<"v", "a", "l">>

\* one iteration of the loop of docf on match m: the new doc, or the error
docf_step(d, m) ==
    IF m.tag = T_struct
    THEN [doc |-> Replace(d, m.text, <<":", "c", "l", "a", "s", "s", ":", BQ>> \o m.val \o <<BQ>>),
          err |-> None]
    ELSE IF m.tag = T_route
    THEN [doc |-> Replace(d, m.text, m.val), err |-> None]
    ELSE IF m.tag = T_link
    THEN LET parts == rsplit(m.val) IN
         IF Len(parts) # 2
         THEN [doc |-> d, err |-> "ValueError"]
         ELSE [doc |-> Replace(d, m.text,
                               <<BQ>> \o parts[1] \o <<" ", "<">> \o parts[2] \o <<">", BQ, "_">>),
               err |-> None]
    ELSE IF m.tag = T_val
    THEN [doc |-> Replace(d, m.text, format_obj_str(m.val)), err |-> None]
    ELSE [doc |-> Replace(d, m.text, <<BQ, BQ>> \o m.val \o <<BQ, BQ>>), err |-> None]

RECURSIVE docf_loop(_, _)
docf_loop(d, ms) ==
    IF ms = <<>> THEN [doc |-> d, err |-> None]
    ELSE LET r == docf_step(d, Head(ms))
         IN IF r.err # None THEN r ELSE docf_loop(r.doc, Tail(ms))

\* docf(doc): [doc, err]; a doc that is None or empty is written <<>>, and
\* docf returns None for it (if not doc: return)
docf(d) ==
    IF d = <<>> THEN [doc |-> <<>>, err |-> None]
    ELSE docf_loop(d, finditer(d, 1))

(***************************************************************************)
(* The schema model (babelapi, read only).  A data type is                 *)
(* [name, kind, super_type, doc, fields]; super_type is a type name or     *)
(* None; a doc is a sequence of characters, <<>> when absent.  A field is  *)
(* [name, data_type, optional, has_default, default, doc].  The data type  *)
(* of a field is [kind, name] for a composite (name is the referenced      *)
(* type), and carries its constraint attributes otherwise.                 *)
(***************************************************************************)
is_struct_type(t)    == t.kind = "struct"
is_union_type(t)     == t.kind = "union"
is_composite_type(t) == t.kind \in {"struct", "union"}
is_list_type(t)      == t.kind = "list"
is_integer_type(t)   == t.kind = "integer"
is_string_type(t)    == t.kind = "string"
is_timestamp_type(t) == t.kind = "timestamp"
is_boolean_type(t)   == t.kind = "boolean"
is_binary_type(t)    == t.kind = "binary"
is_null_type(t)      == t.kind = "null"
is_symbol_type(t)    == t.kind = "symbol"
is_any_type(t)       == t.kind = "any"

\* PythonTargetLanguage.format_class on the names of the model: capitalised
format_class(n) ==
    CASE n = "a" -> "A" [] n = "b" -> "B" [] n = "c" -> "C"
      [] n = "x" -> "X" [] n = "y" -> "Y" [] n = "z" -> "Z"
      [] OTHER -> n

\* format_variable and format_method: lower case with underscores; the field
\* names of the model are already of that form
format_variable(n) == n
format_method(n)   == n

PyBool(b) == IF b THEN "True" ELSE "False"

\* repr of a str
PyRepr(n) == "'" \o n \o "'"

(***************************************************************************)
(* The emitter (CodeGenerator.emit_line, emit_empty_line, indent).  A      *)
(* generation routine is the record [lines, err]: the lines it emitted,    *)
(* and the exception that ended it, or None.                               *)
(***************************************************************************)
emit_line(code)  == [lines |-> << [ind |-> 0, code |-> code] >>, err |-> None]
emit_empty_line  == emit_line(<<"">>)
Nothing          == [lines |-> <<>>, err |-> None]
Raise(e)         == [lines |-> <<>>, err |-> e]

\* a then b: b runs only if a raised nothing
Then(a, b) ==
    IF a.err # None THEN a
    ELSE [lines |-> a.lines \o b.lines, err |-> b.err]

RECURSIVE Seqn(_)
Seqn(rs) == IF rs = <<>> THEN Nothing ELSE Then(Head(rs), Seqn(Tail(rs)))

\* with self.indent(): body
indent(r) ==
    [lines |-> [i \in DOMAIN r.lines |-> [r.lines[i] EXCEPT !.ind = @ + 1]],
     err   |-> r.err]

\* emit_wrapped_lines(self.docf(d)): docf runs first and may raise
emit_doc(d) ==
    LET r == docf(d) IN
    IF r.err # None THEN Raise(r.err)
    ELSE emit_line(<<"{}", IF r.doc = <<>> THEN None ELSE Join(r.doc)>>)

_class_name_for_data_type(name) == format_class(name)

_class_declaration_for_data_type(data_type) ==
    LET extends == IF data_type.super_type # None
                   THEN _class_name_for_data_type(data_type.super_type)
                   ELSE "object"
    IN <<"class {}({}):", _class_name_for_data_type(data_type.name), extends>>

\* _filter_out_none_valued_keys, then ', '.join of k=v in the order given
RECURSIVE _func_args_from_dict(_)
_func_args_from_dict(d) ==
    IF d = <<>> THEN ""
    ELSE LET rest == _func_args_from_dict(Tail(d)) IN
         IF Head(d)[2] = None THEN rest
         ELSE Head(d)[1] \o "=" \o Head(d)[2] \o (IF rest = "" THEN "" ELSE ", " \o rest)

RECURSIVE _determine_validator_type(_)
_determine_validator_type(data_type) ==
    IF is_list_type(data_type)
    THEN "dt.List(" \o _func_args_from_dict(<<
             <<"data_type", _determine_validator_type(data_type.data_type)>>,
             <<"min_length", data_type.min_items>>,
             <<"max_length", data_type.max_items>> >>) \o ")"
    ELSE IF is_integer_type(data_type)
    THEN "dt." \o data_type.name \o "(" \o _func_args_from_dict(<<
             <<"min_value", data_type.min_value>>,
             <<"max_value", data_type.max_value>> >>) \o ")"
    ELSE IF is_string_type(data_type)
    THEN "dt.String(" \o _func_args_from_dict(<<
             <<"min_length", data_type.min_length>>,
             <<"max_length", data_type.max_length>>,
             <<"pattern", IF data_type.pattern = None THEN "None"
                          ELSE PyRepr(data_type.pattern)>> >>) \o ")"
    ELSE IF is_timestamp_type(data_type)
    THEN "dt.Timestamp(" \o _func_args_from_dict(<<
             <<"format", PyRepr(data_type.format)>> >>) \o ")"
    ELSE IF is_struct_type(data_type)
    THEN "dt.Struct(" \o format_class(data_type.name) \o ")"
    ELSE IF is_union_type(data_type)
    THEN "dt.Union(" \o format_class(data_type.name) \o ")"
    ELSE "dt." \o data_type.name \o "()"

_generate_struct_class_slots(data_type) ==
    Seqn(<<
        emit_line(<<"__slots__ = [">>),
        indent(Seqn([i \in DOMAIN data_type.fields |->
            LET field_name == format_variable(data_type.fields[i].name) IN
            Then(emit_line(<<"'_%s',", field_name>>),
                 emit_line(<<"'__has_%s',", field_name>>))])),
        emit_line(<<"]">>),
        emit_empty_line >>)

\* _generate_fields_for_reflection forgetting the super type
_generate_fields_for_reflection_own(data_type) ==
    Seqn(<<
        emit_line(<<"_field_names_ = {">>),
        indent(Seqn([i \in DOMAIN data_type.fields |->
            emit_line(<<"'{}',", format_variable(data_type.fields[i].name)>>)])),
        emit_line(<<"}">>),
        emit_empty_line,
        emit_line(<<"_fields_ = [">>),
        indent(Seqn([i \in DOMAIN data_type.fields |->
            LET field == data_type.fields[i]
                var_name == format_variable(field.name)
                validator_name == "__" \o var_name \o "_data_type"
            IN emit_line(<<"('{}', {}, {}),", var_name, PyBool(field.optional),
                           validator_name>>)])),
        emit_line(<<"]">>),
        emit_empty_line >>)

_generate_fields_for_reflection(data_type) ==
    LET super_type_class_name ==
            IF data_type.super_type # None
            THEN _class_name_for_data_type(data_type.super_type)
            ELSE None
    IN Seqn(<<
        IF super_type_class_name # None
        THEN emit_line(<<"_field_names_ = %s._field_names_.union({", super_type_class_name>>)
        ELSE emit_line(<<"_field_names_ = {">>),
        indent(Seqn([i \in DOMAIN data_type.fields |->
            emit_line(<<"'{}',", format_variable(data_type.fields[i].name)>>)])),
        IF super_type_class_name # None
        THEN emit_line(<<"})">>)
        ELSE emit_line(<<"}">>),
        emit_empty_line,
        IF super_type_class_name # None
        THEN emit_line(<<"_fields_ = {}._fields_ + [", super_type_class_name>>)
        ELSE emit_line(<<"_fields_ = [">>),
        indent(Seqn([i \in DOMAIN data_type.fields |->
            LET field == data_type.fields[i]
                var_name == format_variable(field.name)
                validator_name == "__" \o var_name \o "_data_type"
            IN emit_line(<<"('{}', {}, {}),", var_name, PyBool(field.optional),
                           validator_name>>)])),
        emit_line(<<"]">>),
        emit_empty_line >>)

\* entry: self.lineno when the routine is entered
_generate_struct_class_vars(data_type, entry) ==
    LET lineno == entry
        vs == Seqn([i \in DOMAIN data_type.fields |->
                LET field == data_type.fields[i]
                    field_name == format_variable(field.name)
                    validator_name == _determine_validator_type(field.data_type)
                IN emit_line(<<"__{}_data_type = {}", field_name, validator_name>>)])
    IN Seqn(<<
        vs,
        IF lineno # entry + Len(vs.lines) THEN emit_empty_line ELSE Nothing,
        _generate_fields_for_reflection(data_type) >>)

_generate_struct_class_init(data_type, entry) ==
    LET lineno == entry + 1    \* read after the def line has been emitted
        body == Seqn(<<
            IF data_type.super_type # None
            THEN emit_line(<<"super({}, self).__init__()",
                             _class_name_for_data_type(data_type.name)>>)
            ELSE Nothing,
            Seqn([i \in DOMAIN data_type.fields |->
                LET field_var_name == format_variable(data_type.fields[i].name) IN
                Then(emit_line(<<"self._{} = None", field_var_name>>),
                     emit_line(<<"self.__has_{} = False", field_var_name>>))]) >>)
    IN Then(emit_line(<<"def __init__(self):">>),
            indent(Seqn(<<
                body,
                IF lineno = entry + 1 + Len(body.lines)
                THEN emit_line(<<"pass">>) ELSE Nothing,
                emit_empty_line >>)))

\* [s, err]: the Python type named in a getter's :rtype:, or TypeError
RECURSIVE _python_type_mapping(_)
_python_type_mapping(data_type) ==
    IF is_string_type(data_type) THEN [s |-> "str", err |-> None]
    ELSE IF is_binary_type(data_type) THEN [s |-> "str", err |-> None]
    ELSE IF is_boolean_type(data_type) THEN [s |-> "bool", err |-> None]
    ELSE IF is_integer_type(data_type) THEN [s |-> "long", err |-> None]
    ELSE IF is_null_type(data_type) THEN [s |-> "None", err |-> None]
    ELSE IF is_timestamp_type(data_type) THEN [s |-> "datetime.datetime", err |-> None]
    ELSE IF is_composite_type(data_type)
    THEN [s |-> _class_name_for_data_type(data_type.name), err |-> None]
    ELSE IF is_list_type(data_type)
    THEN LET r == _python_type_mapping(data_type.data_type)
         IN [s |-> "list of [" \o r.s \o "]", err |-> r.err]
    ELSE [s |-> "", err |-> "TypeError"]

\* generate getter for field
_struct_getter(field) ==
    LET field_name == format_method(field.name)
        rtype == _python_type_mapping(field.data_type)
    IN Seqn(<<
        emit_line(<<"@property">>),
        emit_line(<<"def {}(self):", field_name>>),
        indent(Seqn(<<
            emit_line(<<"\"\"\"">>),
            IF field.doc # <<>> THEN emit_doc(field.doc) ELSE Nothing,
            IF rtype.err # None THEN Raise(rtype.err)
            ELSE emit_line(<<":rtype: {}", rtype.s>>),
            emit_line(<<"\"\"\"">>),
            emit_line(<<"if self.__has_{}:", field_name>>),
            indent(emit_line(<<"return self._{}", field_name>>)),
            emit_line(<<"else:">>),
            indent(IF field.optional
                   THEN IF field.has_default
                        \* emit_line(self.lang.format_obj(field.default)): the
                        \* line is the literal alone
                        THEN emit_line(<<"{}", field.default>>)
                        ELSE emit_line(<<"return None">>)
                   ELSE emit_line(<<"raise KeyError(\"missing required field {!r}\")",
                                    field_name>>)) >>)),
        emit_empty_line >>)

\* the setter without the line that marks the field as set
_struct_setter_no_flag(field) ==
    LET field_name == format_method(field.name) IN
    Seqn(<<
        emit_line(<<"@{}.setter", field_name>>),
        emit_line(<<"def {}(self, val):", field_name>>),
        indent(Seqn(<<
            IF field.optional
            THEN Then(emit_line(<<"if val is None:">>),
                      indent(Then(emit_line(<<"del self.{}", field_name>>),
                                  emit_line(<<"return">>))))
            ELSE Nothing,
            IF is_composite_type(field.data_type)
            THEN emit_line(<<"self.__{}_data_type.validate_type_only(val)", field_name>>)
            ELSE emit_line(<<"self.__{}_data_type.validate(val)", field_name>>),
            emit_line(<<"self._{} = val", field_name>>) >>)),
        emit_empty_line >>)

\* generate setter for field
_struct_setter(field) ==
    LET field_name == format_method(field.name) IN
    Seqn(<<
        emit_line(<<"@{}.setter", field_name>>),
        emit_line(<<"def {}(self, val):", field_name>>),
        indent(Seqn(<<
            IF field.optional
            THEN Then(emit_line(<<"if val is None:">>),
                      indent(Then(emit_line(<<"del self.{}", field_name>>),
                                  emit_line(<<"return">>))))
            ELSE Nothing,
            IF is_composite_type(field.data_type)
            THEN emit_line(<<"self.__{}_data_type.validate_type_only(val)", field_name>>)
            ELSE emit_line(<<"self.__{}_data_type.validate(val)", field_name>>),
            emit_line(<<"self._{} = val", field_name>>),
            emit_line(<<"self.__has_{} = True", field_name>>) >>)),
        emit_empty_line >>)

\* generate deleter for field
_struct_deleter(field) ==
    LET field_name == format_method(field.name) IN
    Seqn(<<
        emit_line(<<"@{}.deleter", field_name>>),
        emit_line(<<"def {}(self):", field_name>>),
        indent(Then(emit_line(<<"self._{} = None", field_name>>),
                    emit_line(<<"self.__has_{} = False", field_name>>))),
        emit_empty_line >>)

\* the body of the loop over the fields
_struct_property(field) ==
    Seqn(<<_struct_getter(field), _struct_setter(field), _struct_deleter(field)>>)

_generate_struct_class_properties(data_type) ==
    Seqn([i \in DOMAIN data_type.fields |-> _struct_property(data_type.fields[i])])

\* data_type.all_fields: the fields of the super types, root first, then its own
RECURSIVE all_fields(_, _)
all_fields(types, data_type) ==
    IF data_type.super_type = None THEN data_type.fields
    ELSE LET sup == CHOOSE i \in DOMAIN types : types[i].name = data_type.super_type
         IN all_fields(types, types[sup]) \o data_type.fields

_generate_struct_class_repr(types, data_type) ==
    Then(emit_line(<<"def __repr__(self):">>),
         Then(indent(
                IF all_fields(types, data_type) # <<>>
                THEN emit_line(<<"return '{0}({1}=%r)' % self._{1}",
                                 _class_name_for_data_type(data_type.name),
                                 all_fields(types, data_type)[1].name>>)
                ELSE emit_line(<<"return '{}()'",
                                 _class_name_for_data_type(data_type.name)>>)),
              emit_empty_line))

_generate_struct_class(types, data_type, entry) ==
    LET before_vars == Seqn(<<
            IF data_type.doc # <<>>
            THEN Seqn(<<
                    emit_line(<<"\"\"\"">>),
                    emit_doc(data_type.doc),
                    emit_empty_line,
                    Seqn([i \in DOMAIN data_type.fields |->
                        LET field == data_type.fields[i] IN
                        IF field.doc # <<>>
                        THEN LET r == docf(field.doc) IN
                             IF r.err # None THEN Raise(r.err)
                             ELSE emit_line(<<":ivar {}: {}",
                                              format_variable(field.name), Join(r.doc)>>)
                        ELSE Nothing]),
                    emit_line(<<"\"\"\"">>) >>)
            ELSE Nothing,
            emit_empty_line,
            _generate_struct_class_slots(data_type) >>)
        \* self.lineno where the two routines that read it are entered
        at_vars == entry + 1 + Len(before_vars.lines)
        class_vars == _generate_struct_class_vars(data_type, at_vars)
        at_init == at_vars + Len(class_vars.lines)
    IN Then(emit_line(_class_declaration_for_data_type(data_type)),
            indent(Seqn(<<
               before_vars,
               class_vars,
               _generate_struct_class_init(data_type, at_init),
               _generate_struct_class_properties(data_type),
               _generate_struct_class_repr(types, data_type) >>)))

(***************************************************************************)
(* Tagged union types                                                      *)
(***************************************************************************)
_generate_union_class_fields_for_reflection(data_type) ==
    IF data_type.super_type # None
    THEN Raise("AssertionError")   \* assert not data_type.super_type
    ELSE Seqn(<<
        emit_line(<<"_field_names_ = {">>),
        indent(Seqn([i \in DOMAIN data_type.fields |->
            emit_line(<<"'{}',", format_variable(data_type.fields[i].name)>>)])),
        emit_line(<<"}">>),
        emit_empty_line,
        emit_line(<<"_fields_ = {">>),
        indent(Seqn([i \in DOMAIN data_type.fields |->
            LET field == data_type.fields[i]
                var_name == format_variable(field.name)
            IN IF is_symbol_type(field.data_type) \/ is_any_type(field.data_type)
               THEN emit_line(<<"'{}': None,", var_name>>)
               ELSE LET validator_name ==
                            IF ~is_composite_type(field.data_type)
                            THEN "__" \o var_name \o "_data_type"
                            ELSE _class_name_for_data_type(field.data_type.name)
                    IN emit_line(<<"'{}': {},", var_name, validator_name>>)])),
        emit_line(<<"}">>),
        emit_empty_line >>)

_generate_union_class_init(data_type) ==
    Then(emit_line(<<"def __init__(self):">>),
         indent(Seqn(<<
            IF data_type.super_type # None
            THEN emit_line(<<"super({}, self).__init__()",
                             _class_name_for_data_type(data_type.name)>>)
            ELSE Nothing,
            Seqn([i \in DOMAIN data_type.fields |->
                LET field == data_type.fields[i] IN
                IF ~is_symbol_type(field.data_type)
                THEN emit_line(<<"self._{} = None", format_variable(field.name)>>)
                ELSE Nothing]),
            emit_line(<<"self._tag = None">>),
            emit_empty_line >>)))

_generate_union_class_symbol_creators(data_type) ==
    LET class_name == format_class(data_type.name) IN
    Seqn([i \in DOMAIN data_type.fields |->
        LET field == data_type.fields[i]
            field_name == format_method(field.name)
        IN IF is_symbol_type(field.data_type) \/ is_any_type(field.data_type)
           THEN Seqn(<<
                emit_line(<<"@classmethod">>),
                emit_line(<<"def create_and_set_{}(cls):", field_name>>),
                indent(Seqn(<<
                    emit_line(<<"\"\"\"">>),
                    emit_line(<<":rtype: {}", class_name>>),
                    emit_line(<<"\"\"\"">>),
                    emit_line(<<"c = cls()">>),
                    emit_line(<<"c.set_{}()", field_name>>),
                    emit_line(<<"return c">>) >>)),
                emit_empty_line >>)
           ELSE Nothing])

\* is_<field> comparing the tag with the name of the first field, whatever
\* the field
_generate_union_class_is_set_first(data_type) ==
    Seqn([i \in DOMAIN data_type.fields |->
        LET field_name == format_method(data_type.fields[i].name) IN
        Seqn(<<
            emit_line(<<"def is_{}(self):", field_name>>),
            indent(emit_line(<<"return self._tag == {!r}",
                               format_method(data_type.fields[1].name)>>)),
            emit_empty_line >>)])

_generate_union_class_is_set(data_type) ==
    Seqn([i \in DOMAIN data_type.fields |->
        LET field_name == format_method(data_type.fields[i].name) IN
        Seqn(<<
            emit_line(<<"def is_{}(self):", field_name>>),
            indent(emit_line(<<"return self._tag == {!r}", field_name>>)),
            emit_empty_line >>)])

\* set_<field> of a unit variant, or the getter and the setter of a value variant
_union_property(field) ==
    LET field_name == format_method(field.name) IN
    IF is_symbol_type(field.data_type) \/ is_any_type(field.data_type)
    THEN Seqn(<<
            emit_line(<<"def set_{}(self):", field_name>>),
            indent(emit_line(<<"self._tag = {!r}", field_name>>)),
            emit_empty_line >>)
    ELSE Seqn(<<
            \* generate getter for field
            emit_line(<<"@property">>),
            emit_line(<<"def {}(self):", field_name>>),
            indent(Seqn(<<
                emit_line(<<"if not self.is_{}():", field_name>>),
                indent(emit_line(<<"raise KeyError(\"tag {!r} not set\")", field_name>>)),
                IF is_symbol_type(field.data_type)
                THEN emit_line(<<"return {!r}", field_name>>)
                ELSE emit_line(<<"return self._{}", field_name>>) >>)),
            emit_empty_line,
            \* generate setter for field
            emit_line(<<"@{}.setter", field_name>>),
            emit_line(<<"def {}(self, val):", field_name>>),
            indent(Seqn(<<
                IF is_composite_type(field.data_type)
                THEN emit_line(<<"self.__{}_data_type.validate_type_only(val)", field_name>>)
                ELSE emit_line(<<"self.__{}_data_type.validate(val)", field_name>>),
                emit_line(<<"self._{} = val", field_name>>),
                emit_line(<<"self._tag = {!r}", field_name>>) >>)),
            emit_empty_line >>)

_generate_union_class_properties(data_type) ==
    Seqn([i \in DOMAIN data_type.fields |-> _union_property(data_type.fields[i])])

_generate_union_class_repr(data_type) ==
    Then(emit_line(<<"def __repr__(self):">>),
         Then(indent(
                IF data_type.fields # <<>>
                THEN emit_line(<<"return '{}(%r)' % self._tag",
                                 _class_name_for_data_type(data_type.name)>>)
                ELSE emit_line(<<"return '{}()'",
                                 _class_name_for_data_type(data_type.name)>>)),
              emit_empty_line))

\* the loop over the fields in the docstring of a union: ivar_doc is a local
\* variable assigned only for symbol and composite fields (<<>>: not yet bound)
RECURSIVE _union_ivar_docs(_, _)
_union_ivar_docs(fields, ivar_doc) ==
    IF fields = <<>> THEN Nothing
    ELSE LET field == Head(fields)
             r == docf(field.doc)
             new == IF is_symbol_type(field.data_type) \/ is_composite_type(field.data_type)
                    THEN <<":ivar {}: {}", format_class(field.name),
                           IF r.doc = <<>> THEN None ELSE Join(r.doc)>>
                    ELSE ivar_doc
         IN IF (is_symbol_type(field.data_type) \/ is_composite_type(field.data_type))
               /\ r.err # None
            THEN Raise(r.err)
            ELSE IF new = <<>> THEN Raise("UnboundLocalError")
            ELSE Then(emit_line(new), _union_ivar_docs(Tail(fields), new))

_generate_union_class(data_type) ==
    Then(emit_line(_class_declaration_for_data_type(data_type)),
         indent(Seqn(<<
            IF data_type.doc # <<>>
            THEN Seqn(<<
                    emit_line(<<"\"\"\"">>),
                    emit_doc(data_type.doc),
                    emit_empty_line,
                    _union_ivar_docs(data_type.fields, <<>>),
                    emit_line(<<"\"\"\"">>) >>)
            ELSE Nothing,
            emit_empty_line,
            _generate_union_class_fields_for_reflection(data_type),
            _generate_union_class_init(data_type),
            _generate_union_class_symbol_creators(data_type),
            _generate_union_class_is_set(data_type),
            _generate_union_class_properties(data_type),
            _generate_union_class_repr(data_type) >>)))

(***************************************************************************)
(* Routes.  A route is [name, doc, request_data_type, response_data_type,  *)
(* error_data_type, attrs]; an absent data type is NoType; attrs is the    *)
(* sequence of the (key, formatted value) pairs of the attribute map.      *)
(***************************************************************************)
NoType == [kind |-> "absent", name |-> ""]

_generate_route_class(route) ==
    Then(emit_line(<<"class {}Route(object):", format_class(route.name)>>),
         indent(Seqn(<<
            IF route.doc # <<>>
            THEN Seqn(<<emit_line(<<"\"\"\"">>), emit_doc(route.doc),
                        emit_line(<<"\"\"\"">>)>>)
            ELSE Nothing,
            IF route.request_data_type # NoType
            THEN emit_line(<<"request_data_type = {}",
                             _determine_validator_type(route.request_data_type)>>)
            ELSE Nothing,
            IF route.response_data_type # NoType
            THEN emit_line(<<"response_data_type = {}",
                             _determine_validator_type(route.response_data_type)>>)
            ELSE Nothing,
            IF route.error_data_type # NoType
            THEN emit_line(<<"error_data_type = {}",
                             _determine_validator_type(route.error_data_type)>>)
            ELSE Nothing,
            emit_empty_line,
            IF route.attrs # <<>>
            THEN Seqn(<<
                    emit_line(<<"attrs = {">>),
                    indent(Seqn([i \in DOMAIN route.attrs |->
                        emit_line(<<"'{}': {},", route.attrs[i][1], route.attrs[i][2]>>)])),
                    emit_line(<<"}">>) >>)
            ELSE emit_line(<<"attrs = {}">>),
            emit_empty_line >>)))

(***************************************************************************)
(* The schema models explored.  linearize_data_types() is babelapi's: the  *)
(* data types arrive in dependency order, so a super type and a composite  *)
(* type named by a field are earlier in the list than the type that names  *)
(* them.  Type names are "A", "B", ... by position.                        *)
(***************************************************************************)
MaxTypes  == 3
MaxRoutes == 1

TypeNames  == <<"A", "B", "C", "D">>
RouteNames == <<"get", "put", "del">>

StringT == [kind |-> "string", name |-> "String",
            min_length |-> None, max_length |-> None, pattern |-> None]
Int32T  == [kind |-> "integer", name |-> "Int32", min_value |-> "0", max_value |-> None]
ListT(e) == [kind |-> "list", name |-> "List", data_type |-> e,
             min_items |-> None, max_items |-> "2"]
SymbolT == [kind |-> "symbol", name |-> "Symbol"]
AnyT    == [kind |-> "any", name |-> "Any"]
StructRef(n) == [kind |-> "struct", name |-> n]

Field(n, t, optional, has_default, default, d) ==
    [name |-> n, data_type |-> t, optional |-> optional,
     has_default |-> has_default, default |-> default, doc |-> d]

\* "see :route:<bq>get<bq>"
DocRoute == <<"s", "e", "e", " ", ":", "r", "o", "u", "t", "e", ":", BQ, "x", BQ>>
\* "a :struct:<bq>A<bq>"
DocStruct == <<"a", " ", ":", "s", "t", "r", "u", "c", "t", ":", BQ, "A", BQ>>

\* what a data type holds besides its name and its super type
TypeBodies == {
    [kind |-> "struct", doc |-> <<>>, fields |-> <<>>],
    [kind |-> "struct", doc |-> <<>>,
     fields |-> << Field("a", StringT, FALSE, FALSE, None, <<>>) >>],
    [kind |-> "struct", doc |-> DocStruct,
     fields |-> << Field("a", Int32T, TRUE, TRUE, "1", DocRoute),
                   Field("b", ListT(StringT), FALSE, FALSE, None, <<>>),
                   Field("c", StringT, TRUE, FALSE, None, <<>>) >>],
    [kind |-> "struct", doc |-> <<>>,
     fields |-> << Field("b", StructRef("A"), FALSE, FALSE, None, <<>>),
                   Field("c", Int32T, TRUE, TRUE, "2", <<>>) >>],
    [kind |-> "union", doc |-> <<>>,
     fields |-> << Field("x", StringT, FALSE, FALSE, None, <<>>),
                   Field("y", SymbolT, FALSE, FALSE, None, <<>>) >>],
    [kind |-> "union", doc |-> DocRoute,
     fields |-> << Field("x", StructRef("A"), FALSE, FALSE, None, DocStruct),
                   Field("y", SymbolT, FALSE, FALSE, None, <<>>),
                   Field("z", AnyT, FALSE, FALSE, None, <<>>) >>] }

RouteBodies == {
    [doc |-> <<>>, request_data_type |-> NoType, response_data_type |-> NoType,
     error_data_type |-> NoType, attrs |-> <<>>],
    [doc |-> DocRoute, request_data_type |-> StructRef("A"),
     response_data_type |-> ListT(StringT), error_data_type |-> Int32T,
     attrs |-> << <<"host", "'api'">> >>] }

\* the composite types a data type or a route names through its fields
FieldRefs(fields) ==
    {fields[i].data_type : i \in {j \in DOMAIN fields : is_composite_type(fields[j].data_type)}}

RouteRefs(r) ==
    {t \in {r.request_data_type, r.response_data_type, r.error_data_type} :
        is_composite_type(t)}

\* data type i names only earlier types, each by its kind; a struct extends
\* a struct
WellOrdered(types) ==
    \A i \in DOMAIN types :
        /\ types[i].name = TypeNames[i]
        /\ types[i].super_type # None =>
              \E j \in 1..(i - 1) :
                 /\ types[j].name = types[i].super_type
                 /\ is_struct_type(types[i]) => is_struct_type(types[j])
        /\ \A ref \in FieldRefs(types[i].fields) :
              \E j \in 1..(i - 1) : types[j].name = ref.name /\ types[j].kind = ref.kind

MkType(i, body, sup) ==
    [name |-> TypeNames[i], kind |-> body.kind, super_type |-> sup,
     doc |-> body.doc, fields |-> body.fields]

MkRoute(i, body) ==
    [name |-> RouteNames[i], doc |-> body.doc,
     request_data_type |-> body.request_data_type,
     response_data_type |-> body.response_data_type,
     error_data_type |-> body.error_data_type, attrs |-> body.attrs]

\* the lists of n data types
RECURSIVE TypeListsOfLen(_)
TypeListsOfLen(n) ==
    IF n = 0 THEN {<<>>}
    ELSE UNION {
            {Append(ts, MkType(n, b, sup)) :
                b \in TypeBodies,
                sup \in {None} \cup {TypeNames[i] : i \in 1..(n - 1)}}
            : ts \in TypeListsOfLen(n - 1) }

TypeLists == {ts \in UNION {TypeListsOfLen(n) : n \in 0..MaxTypes} : WellOrdered(ts)}

RECURSIVE RouteListsOfLen(_)
RouteListsOfLen(n) ==
    IF n = 0 THEN {<<>>}
    ELSE {Append(rs, MkRoute(n, b)) : rs \in RouteListsOfLen(n - 1), b \in RouteBodies}

RouteLists(ts) ==
    {rs \in UNION {RouteListsOfLen(n) : n \in 0..MaxRoutes} :
        \A i \in DOMAIN rs : \A ref \in RouteRefs(rs[i]) :
            \E j \in DOMAIN ts : ts[j].name = ref.name /\ ts[j].kind = ref.kind}

Namespaces ==
    UNION {{[data_types |-> ts, routes |-> rs] : rs \in RouteLists(ts)} : ts \in TypeLists}

(***************************************************************************)
(* generate / _generate_base_namespace_module: one step per call made by   *)
(* its two loops.                                                          *)
(***************************************************************************)
base == << [ind |-> 0, code |-> <<"import babel_data_types as dt">>],
           [ind |-> 0, code |-> <<"">>] >>

Idle == [cls |-> None]

\* no run of generate has completed yet
NoRun == [n |-> 0, out |-> <<>>, api |-> None, start |-> 1]

GenInit ==
    /\ api \in Namespaces
    /\ out = <<>>
    /\ pc = [state |-> "start", t |-> 1, r |-> 1]
    /\ gen_err = None
    /\ obj = Idle /\ last = Idle /\ prev = Idle /\ module = <<>>
    /\ doc = <<>> /\ doc_in = <<>> /\ doc_it = <<>> /\ doc_pc = "idle"
    /\ synth = Idle
    /\ self_lineno = 1 /\ earlier = NoRun

NotRun == UNCHANGED <<obj, last, prev, doc, doc_in, doc_it, doc_pc, module, synth>>

\* the emitter counts the lines it is given
Counted(lines) ==
    /\ self_lineno' = self_lineno + Len(lines)
    /\ UNCHANGED earlier

\* what one generation routine leaves behind: its lines, and either the next
\* position or the abort
Emitted(r, next) ==
    /\ out' = out \o r.lines
    /\ Counted(r.lines)
    /\ IF r.err # None
       THEN gen_err' = r.err /\ pc' = [pc EXCEPT !.state = "aborted"]
       ELSE gen_err' = gen_err /\ pc' = next
    /\ UNCHANGED api
    /\ NotRun

\* the header written only by an emitter that has not counted a line yet
EmitBaseOnce ==
    /\ pc.state = "start"
    /\ out' = out \o (IF self_lineno = 1 THEN base ELSE <<>>)
    /\ Counted(IF self_lineno = 1 THEN base ELSE <<>>)
    /\ pc' = [pc EXCEPT !.state = "types"]
    /\ UNCHANGED <<api, gen_err>>
    /\ NotRun

EmitBase ==
    /\ pc.state = "start"
    /\ out' = out \o base
    /\ Counted(base)
    /\ pc' = [pc EXCEPT !.state = "types"]
    /\ UNCHANGED <<api, gen_err>>
    /\ NotRun

GenerateStructClass ==
    /\ pc.state = "types"
    /\ pc.t <= Len(api.data_types)
    /\ is_struct_type(api.data_types[pc.t])
    /\ Emitted(_generate_struct_class(api.data_types, api.data_types[pc.t],
                                      self_lineno),
               [pc EXCEPT !.t = @ + 1])

GenerateUnionClass ==
    /\ pc.state = "types"
    /\ pc.t <= Len(api.data_types)
    /\ is_union_type(api.data_types[pc.t])
    /\ Emitted(_generate_union_class(api.data_types[pc.t]), [pc EXCEPT !.t = @ + 1])

\* the loop over the routes not waiting for the loop over the data types
GenerateRouteClassEarly ==
    /\ pc.state = "types"
    /\ pc.r <= Len(api.routes)
    /\ Emitted(_generate_route_class(api.routes[pc.r]), [pc EXCEPT !.r = @ + 1])

GenerateRouteClass ==
    /\ pc.state = "types"
    /\ pc.t > Len(api.data_types)
    /\ pc.r <= Len(api.routes)
    /\ Emitted(_generate_route_class(api.routes[pc.r]), [pc EXCEPT !.r = @ + 1])

GenReturn ==
    /\ pc.state = "types"
    /\ pc.t > Len(api.data_types)
    /\ pc.r > Len(api.routes)
    /\ pc' = [pc EXCEPT !.state = "done"]
    /\ UNCHANGED <<api, out, gen_err, self_lineno, earlier>>
    /\ NotRun

GenNext ==
    \/ EmitBase
    \/ GenerateStructClass
    \/ GenerateUnionClass
    \/ GenerateRouteClass
    \/ GenReturn

SpecGen == GenInit /\ [][GenNext]_vars

(***************************************************************************)
(* generate called again on the same generator and the same schema model,  *)
(* after a run that returned.  The output goes to a new buffer; the        *)
(* emitter's line counter starts again at 1 or goes on from where the      *)
(* earlier run left it.                                                    *)
(***************************************************************************)
MaxRuns == 2

Rerun ==
    /\ pc.state = "done"
    /\ earlier.n + 1 < MaxRuns
    /\ earlier' = [n |-> earlier.n + 1, out |-> out, api |-> api,
                   start |-> self_lineno]
    /\ self_lineno' \in {1, self_lineno}
    /\ out' = <<>>
    /\ gen_err' = None
    /\ pc' = [state |-> "start", t |-> 1, r |-> 1]
    /\ UNCHANGED api
    /\ NotRun

TwiceNext ==
    \/ EmitBase
    \/ GenerateStructClass
    \/ GenerateUnionClass
    \/ GenerateRouteClass
    \/ GenReturn
    \/ Rerun

SpecTwice == GenInit /\ [][TwiceNext]_vars

(***************************************************************************)
(* The emitted module as Python runs it.  Importing it makes one class     *)
(* object per class statement: its base, its __slots__, the variables of   *)
(* its body and its methods (decorator, def line, body).  An attribute     *)
(* written __name inside class C is the attribute _C__name (name           *)
(* mangling).  An instance is its attribute map d (name -> value); a call  *)
(* yields [d, ret, exc].                                                   *)
(***************************************************************************)
Max(S) == CHOOSE x \in S : \A y \in S : y <= x
Min(S) == CHOOSE x \in S : \A y \in S : x <= y

IsBlank(l) == l.code = <<"">>

\* last line of the block opened by line k, scanning from line j
RECURSIVE BlockScan(_, _, _)
BlockScan(mod, k, j) ==
    IF j < Len(mod) /\ (mod[j + 1].ind > mod[k].ind \/ IsBlank(mod[j + 1]))
    THEN BlockScan(mod, k, j + 1)
    ELSE j

BlockEnd(mod, k) == BlockScan(mod, k, k)

ClassLines(mod) ==
    {i \in DOMAIN mod : mod[i].ind = 0 /\ mod[i].code[1] = "class {}({}):"}

Classes(mod) == {mod[i].code[2] : i \in ClassLines(mod)}

\* index of the declaration of class C (the last one binds the name), or 0
ClassLine(mod, C) ==
    LET S == {i \in ClassLines(mod) : mod[i].code[2] = C}
    IN IF S = {} THEN 0 ELSE Max(S)

Mangle(C, name) == "_" \o C \o name

Decorators == {"@property", "@{}.setter", "@{}.deleter", "@classmethod"}

\* the class object the class statement at line k makes
ClassObject(mod, k) ==
    LET C == mod[k].code[2]
        e == BlockEnd(mod, k)
        top == {i \in (k + 1)..e : mod[i].ind = 1 /\ ~IsBlank(mod[i])}
        sl == {i \in top : mod[i].code = <<"__slots__ = [">>}
    IN [base  |-> mod[k].code[3],
        \* the names in __slots__, or {None} when the class declares none
        slots |-> IF sl = {} THEN {None}
                  ELSE {IF mod[i].code[1] = "'_%s'," THEN "_" \o mod[i].code[2]
                        ELSE Mangle(C, "__has_" \o mod[i].code[2]) :
                            i \in {j \in (Max(sl) + 1)..BlockEnd(mod, Max(sl)) :
                                      ~IsBlank(mod[j])}},
        vars  |-> {Mangle(C, "__" \o mod[i].code[2] \o "_data_type") :
                      i \in {j \in top : mod[j].code[1] = "__{}_data_type = {}"}},
        defs  |-> {[at   |-> i,
                    deco |-> IF mod[i - 1].code[1] \in Decorators
                             THEN mod[i - 1].code ELSE <<>>,
                    def  |-> mod[i].code,
                    body |-> SubSeq(mod, i + 1, BlockEnd(mod, i))] :
                      i \in {j \in top : mod[j].code[1] \in
                                {"def {}(self):", "def {}(self, val):",
                                 "def __init__(self):", "def is_{}(self):",
                                 "def set_{}(self):", "def create_and_set_{}(cls):",
                                 "def __repr__(self):"}}}]

\* import: the classes of the module by name
Import(mod) == [C \in Classes(mod) |-> ClassObject(mod, ClassLine(mod, C))]

\* C, its base, the base of its base, ...
RECURSIVE Mro(_, _)
Mro(m, C) == IF C \notin DOMAIN m THEN <<>> ELSE <<C>> \o Mro(m, m[C].base)

\* the method as attribute lookup finds it along the classes cs: [cls, fn]
RECURSIVE Resolve(_, _, _, _)
Resolve(m, cs, deco, def) ==
    IF cs = <<>> THEN [cls |-> None]
    ELSE LET S == {fn \in m[Head(cs)].defs : fn.deco = deco /\ fn.def = def}
         IN IF S # {}
            THEN [cls |-> Head(cs),
                  fn  |-> CHOOSE fn \in S : \A g \in S : g.at <= fn.at]
            ELSE Resolve(m, Tail(cs), deco, def)

\* an instance with a __dict__ takes any attribute, one without only its slots
CanAssign(m, cls, name) ==
    \E i \in DOMAIN Mro(m, cls) :
        LET sl == m[Mro(m, cls)[i]].slots IN sl = {None} \/ name \in sl

\* attribute lookup finds the class variable name on an instance of cls
HasClassVar(m, cls, name) ==
    \E i \in DOMAIN Mro(m, cls) : name \in m[Mro(m, cls)[i]].vars

\* the values handed to setters, and those the validators of babel_data_types
\* accept (validate and validate_type_only raise on the others)
Vals     == {"1", "2", "'bad'", None}
Accepted == {"1", "2"}

Assign(d, name, v) ==
    [n \in DOMAIN d \cup {name} |-> IF n = name THEN v ELSE d[n]]

Ret(d, v)  == [d |-> d, ret |-> v, exc |-> None]
Exc(d, e)  == [d |-> d, ret |-> None, exc |-> e]

\* first line after k that is not deeper than line k (Len + 1 if none)
NextAtOrBelow(b, k) ==
    LET S == {j \in (k + 1)..Len(b) : ~IsBlank(b[j]) /\ b[j].ind <= b[k].ind}
    IN IF S = {} THEN Len(b) + 1 ELSE Min(S)

\* where execution goes when the condition of the if at line k is false
ElseOf(b, k) ==
    LET n == NextAtOrBelow(b, k) IN
    IF n <= Len(b) /\ b[n].code = <<"else:">> /\ b[n].ind = b[k].ind
    THEN n + 1 ELSE n

RECURSIVE Exec(_, _, _, _, _, _, _)
RECURSIVE Call(_, _, _, _, _, _)

\* call the method (deco, def) found along the classes cs on the instance of
\* class cls whose attributes are d, with argument val
Call(m, cls, cs, dd, d, val) ==
    LET r == Resolve(m, cs, dd[1], dd[2]) IN
    IF r.cls = None THEN Exc(d, "AttributeError")
    ELSE Exec(m, r.fn.body, 1, cls, r.cls, d, val)

\* run the lines k.. of the body b of a method defined in class D
Exec(m, b, k, cls, D, d, val) ==
    IF k > Len(b) THEN Ret(d, None)
    ELSE
    LET t == b[k].code[1]
        a == IF Len(b[k].code) > 1 THEN b[k].code[2] ELSE ""
        next == Exec(m, b, k + 1, cls, D, d, val)
        store(name, v) ==
            IF CanAssign(m, cls, name)
            THEN Exec(m, b, k + 1, cls, D, Assign(d, name, v), val)
            ELSE Exc(d, "AttributeError")
        branch(c) == IF c THEN next ELSE Exec(m, b, ElseOf(b, k), cls, D, d, val)
    IN
    CASE t \in {"", "pass", "{}"} -> next
      [] t = "\"\"\"" ->
            Exec(m, b, Min({j \in (k + 1)..(Len(b) + 1) :
                               j = Len(b) + 1 \/ b[j].code = b[k].code}) + 1,
                 cls, D, d, val)
      [] t = "if self.__has_{}:" ->
            IF Mangle(D, "__has_" \o a) \notin DOMAIN d THEN Exc(d, "AttributeError")
            ELSE branch(d[Mangle(D, "__has_" \o a)] = "True")
      [] t = "if val is None:" -> branch(val = None)
      [] t = "if not self.is_{}():" ->
            LET r == Call(m, cls, Mro(m, cls), <<<<>>, <<"def is_{}(self):", a>>>>, d, None)
            IN IF r.exc # None THEN r ELSE branch(r.ret # "True")
      [] t = "else:" -> Exec(m, b, NextAtOrBelow(b, k), cls, D, d, val)
      [] t = "return self._{}" ->
            IF ("_" \o a) \in DOMAIN d THEN Ret(d, d["_" \o a]) ELSE Exc(d, "AttributeError")
      [] t \in {"return None", "return", "return c"} -> Ret(d, None)
      [] t = "return self._tag == {!r}" ->
            IF "_tag" \in DOMAIN d THEN Ret(d, PyBool(d["_tag"] = PyRepr(a)))
            ELSE Exc(d, "AttributeError")
      [] t = "return {!r}" -> Ret(d, PyRepr(a))
      [] t \in {"raise KeyError(\"missing required field {!r}\")",
                "raise KeyError(\"tag {!r} not set\")"} -> Exc(d, "KeyError")
      [] t = "del self.{}" ->
            LET r == Call(m, cls, Mro(m, cls),
                          <<<<"@{}.deleter", a>>, <<"def {}(self):", a>>>>, d, None)
            IN IF r.exc # None THEN r ELSE Exec(m, b, k + 1, cls, D, r.d, val)
      [] t \in {"self.__{}_data_type.validate(val)",
                "self.__{}_data_type.validate_type_only(val)"} ->
            IF ~HasClassVar(m, cls, Mangle(D, "__" \o a \o "_data_type"))
            THEN Exc(d, "AttributeError")
            ELSE IF val \notin Accepted THEN Exc(d, "ValidationError")
            ELSE next
      [] t = "self._{} = val"        -> store("_" \o a, val)
      [] t = "self._{} = None"       -> store("_" \o a, None)
      [] t = "self.__has_{} = True"  -> store(Mangle(D, "__has_" \o a), "True")
      [] t = "self.__has_{} = False" -> store(Mangle(D, "__has_" \o a), "False")
      [] t = "self._tag = {!r}"      -> store("_tag", PyRepr(a))
      [] t = "self._tag = None"      -> store("_tag", None)
      [] t = "super({}, self).__init__()" ->
            LET cs == Mro(m, cls)
                at == Min({i \in DOMAIN cs : cs[i] = a} \cup {Len(cs) + 1})
                up == SubSeq(cs, at + 1, Len(cs))
                r  == IF Resolve(m, up, <<>>, <<"def __init__(self):">>).cls = None
                      THEN Ret(d, None)      \* object.__init__
                      ELSE Call(m, cls, up, <<<<>>, <<"def __init__(self):">>>>, d, None)
            IN IF r.exc # None THEN r ELSE Exec(m, b, k + 1, cls, D, r.d, val)
      [] t = "c = cls()" ->
            LET r == Call(m, cls, Mro(m, cls), <<<<>>, <<"def __init__(self):">>>>,
                          <<>>, None)
            IN IF r.exc # None THEN r ELSE Exec(m, b, k + 1, cls, D, r.d, val)
      [] t = "c.set_{}()" ->
            LET r == Call(m, cls, Mro(m, cls), <<<<>>, <<"def set_{}(self):", a>>>>,
                          d, None)
            IN IF r.exc # None THEN r ELSE Exec(m, b, k + 1, cls, D, r.d, val)
      [] OTHER -> Exc(d, "SyntaxError")

\* cls(): every emitted class defines __init__
Instantiate(m, cls) ==
    Call(m, cls, Mro(m, cls), <<<<>>, <<"def __init__(self):">>>>, <<>>, None)

(***************************************************************************)
(* Loading the emitted module: a class body runs when the module is        *)
(* imported, and a name it uses must be bound by then (NameError).         *)
(***************************************************************************)
\* class N is bound before line k
BoundBefore(mod, N, k) ==
    ClassLine(mod, N) # 0 /\ BlockEnd(mod, ClassLine(mod, N)) < k

\* the class whose body holds line j
Owner(mod, j) ==
    Max({i \in 1..j : mod[i].ind = 0 /\ ~IsBlank(mod[i])})

\* the class body has bound __<f>_data_type, written name, before line j
VarBoundBefore(mod, name, j) ==
    \E i \in (Owner(mod, j) + 1)..(j - 1) :
        /\ mod[i].ind = 1
        /\ mod[i].code[1] = "__{}_data_type = {}"
        /\ "__" \o mod[i].code[2] \o "_data_type" = name

\* the class names line j refers to
ClassRefs(mod, j) ==
    LET c == mod[j].code IN
    IF c[1] = "class {}({}):" THEN {c[3]} \ {"object"}
    ELSE IF c[1] \in {"_field_names_ = %s._field_names_.union({",
                      "_fields_ = {}._fields_ + ["} THEN {c[2]}
    ELSE IF c[1] = "__{}_data_type = {}"
    THEN {N \in {TypeNames[i] : i \in DOMAIN TypeNames} :
            c[3] \in {"dt.Struct(" \o N \o ")", "dt.Union(" \o N \o ")"}}
    ELSE IF c[1] \in {"request_data_type = {}", "response_data_type = {}",
                      "error_data_type = {}"}
    THEN {N \in {TypeNames[i] : i \in DOMAIN TypeNames} :
            c[2] \in {"dt.Struct(" \o N \o ")", "dt.Union(" \o N \o ")"}}
    ELSE IF c[1] = "'{}': {}," /\ mod[j].ind = 2
            /\ c[3] \in {TypeNames[i] : i \in DOMAIN TypeNames}
    THEN {c[3]}
    ELSE {}

\* the class-body variables line j refers to
VarRefs(mod, j) ==
    LET c == mod[j].code IN
    IF c[1] = "('{}', {}, {})," THEN {c[4]}
    ELSE IF c[1] = "'{}': {}," /\ mod[j].ind = 2
            /\ c[3] \notin {TypeNames[i] : i \in DOMAIN TypeNames}
    THEN {c[3]}
    ELSE {}

\* importing the module raises NameError
LoadError(mod) ==
    \E j \in DOMAIN mod :
        /\ mod[j].ind <= 2
        /\ \/ \E N \in ClassRefs(mod, j) : ~BoundBefore(mod, N, Owner(mod, j))
           \/ \E v \in VarRefs(mod, j) : ~VarBoundBefore(mod, v, j)

\* the element of a singleton
Only(S) == CHOOSE x \in S : TRUE

\* the loop over the data types from the i-th on, the emitter at line entry
\* (r and n range over singletons: each is computed once)
RECURSIVE _generate_data_types(_, _, _)
_generate_data_types(namespace, i, entry) ==
    IF i > Len(namespace.data_types) THEN Nothing
    ELSE LET data_type == namespace.data_types[i] IN
         Only({ IF r.err # None THEN r
                ELSE Then(r, Only({ _generate_data_types(namespace, i + 1, n) :
                                    n \in {entry + Len(r.lines)} })) :
                r \in { IF is_struct_type(data_type)
                        THEN _generate_struct_class(namespace.data_types, data_type,
                                                    entry)
                        ELSE IF is_union_type(data_type)
                        THEN _generate_union_class(data_type)
                        ELSE Raise("TypeError") } })

\* _generate_base_namespace_module as a whole, the emitter at line entry
_generate_base_namespace_module(namespace, entry) ==
    Seqn(<<
        [lines |-> base, err |-> None],
        _generate_data_types(namespace, 1, entry + Len(base)),
        Seqn([i \in DOMAIN namespace.routes |->
            _generate_route_class(namespace.routes[i])]) >>)

(***************************************************************************)
(* Use of the emitted classes: the namespace has been generated and its    *)
(* module imported; one instance is created and its accessors are called.  *)
(* obj.set_last remembers the variant of the last set that returned.       *)
(***************************************************************************)
\* the modules that are imported and used hold at most this many classes
MaxRunTypes == 2

FieldNames == {"a", "b", "c", "x", "y", "z"}

\* the data type of the schema behind class C
TypeOf(C) ==
    LET S == {i \in DOMAIN api.data_types : format_class(api.data_types[i].name) = C}
    IN api.data_types[CHOOSE i \in S : TRUE]

\* the field f of the instance: that of the first class of its chain declaring it
FieldOf(cls, f) ==
    LET cs == Mro(module, cls)
        S == {i \in DOMAIN cs : \E j \in DOMAIN TypeOf(cs[i]).fields :
                                    TypeOf(cs[i]).fields[j].name = f}
        t == TypeOf(cs[Min(S)])
    IN [cls |-> cs[Min(S)],
        field |-> t.fields[CHOOSE j \in DOMAIN t.fields : t.fields[j].name = f]]

HasField(cls, f) ==
    \E i \in DOMAIN Mro(module, cls) :
        \E j \in DOMAIN TypeOf(Mro(module, cls)[i]).fields :
            TypeOf(Mro(module, cls)[i]).fields[j].name = f

IsUnit(field) == is_symbol_type(field.data_type) \/ is_any_type(field.data_type)

\* the module is imported when generation completed and no class body raises
RunInit ==
    /\ api \in {ns \in Namespaces :
                   ns.routes = <<>> /\ Len(ns.data_types) <= MaxRunTypes}
    /\ out = _generate_base_namespace_module(api, 1).lines
    /\ gen_err = _generate_base_namespace_module(api, 1).err
    /\ pc = [state |-> IF gen_err = None THEN "done" ELSE "aborted",
             t |-> Len(api.data_types) + 1, r |-> 1]
    /\ module = IF gen_err = None /\ ~LoadError(out) THEN Import(out) ELSE <<>>
    /\ obj = Idle /\ last = Idle /\ prev = Idle
    /\ doc = <<>> /\ doc_in = <<>> /\ doc_it = <<>> /\ doc_pc = "idle"
    /\ synth = Idle
    /\ self_lineno = 1 + Len(out) /\ earlier = NoRun

NotGen == UNCHANGED <<api, out, pc, gen_err, doc, doc_in, doc_it, doc_pc, module, synth,
                      self_lineno, earlier>>

\* the outcome r of the call op(f, val) on obj
Called(op, f, val, r, set_last) ==
    /\ obj' = [cls |-> obj.cls, d |-> r.d, set_last |-> set_last]
    /\ last' = [op |-> op, f |-> f, val |-> val, ret |-> r.ret, exc |-> r.exc]
    /\ prev' = obj.d
    /\ NotGen

\* obj = C()
New ==
    /\ obj = Idle
    /\ \E C \in DOMAIN module :
          LET r == Instantiate(module, C) IN
          /\ obj' = [cls |-> C, d |-> r.d, set_last |-> None]
          /\ last' = [op |-> "new", f |-> "", val |-> None, ret |-> None, exc |-> r.exc]
          /\ prev' = <<>>
          /\ NotGen

\* obj = C.create_and_set_f()
CreateAndSet ==
    /\ obj = Idle
    /\ \E C \in DOMAIN module, f \in FieldNames :
          LET dd == <<<<"@classmethod">>, <<"def create_and_set_{}(cls):", f>>>>
              r == Call(module, C, Mro(module, C), dd, <<>>, None)
          IN /\ Resolve(module, Mro(module, C), dd[1], dd[2]).cls # None
             /\ obj' = [cls |-> C, d |-> r.d, set_last |-> IF r.exc = None THEN f ELSE None]
             /\ last' = [op |-> "create_and_set", f |-> f, val |-> None,
                         ret |-> None, exc |-> r.exc]
             /\ prev' = <<>>
             /\ NotGen

Live == obj # Idle /\ last.exc \in {None, "KeyError", "ValidationError", "AttributeError"}

\* obj.f
StructGet ==
    /\ Live /\ is_struct_type(TypeOf(obj.cls))
    /\ \E f \in FieldNames :
          /\ HasField(obj.cls, f)
          /\ Called("get", f, None,
                    Call(module, obj.cls, Mro(module, obj.cls),
                         <<<<"@property">>, <<"def {}(self):", f>>>>, obj.d, None),
                    obj.set_last)

\* obj.f = val
StructSet ==
    /\ Live /\ is_struct_type(TypeOf(obj.cls))
    /\ \E f \in FieldNames, val \in Vals :
          /\ HasField(obj.cls, f)
          /\ Called("set", f, val,
                    Call(module, obj.cls, Mro(module, obj.cls),
                         <<<<"@{}.setter", f>>, <<"def {}(self, val):", f>>>>, obj.d, val),
                    obj.set_last)

\* del obj.f
StructDel ==
    /\ Live /\ is_struct_type(TypeOf(obj.cls))
    /\ \E f \in FieldNames :
          /\ HasField(obj.cls, f)
          /\ Called("del", f, None,
                    Call(module, obj.cls, Mro(module, obj.cls),
                         <<<<"@{}.deleter", f>>, <<"def {}(self):", f>>>>, obj.d, None),
                    obj.set_last)

\* obj.is_f()
UnionIs ==
    /\ Live /\ is_union_type(TypeOf(obj.cls))
    /\ \E f \in FieldNames :
          /\ HasField(obj.cls, f)
          /\ Called("is", f, None,
                    Call(module, obj.cls, Mro(module, obj.cls),
                         <<<<>>, <<"def is_{}(self):", f>>>>, obj.d, None),
                    obj.set_last)

\* obj.set_f() of a unit variant
UnionSetUnit ==
    /\ Live /\ is_union_type(TypeOf(obj.cls))
    /\ \E f \in FieldNames :
          /\ HasField(obj.cls, f) /\ IsUnit(FieldOf(obj.cls, f).field)
          /\ LET r == Call(module, obj.cls, Mro(module, obj.cls),
                           <<<<>>, <<"def set_{}(self):", f>>>>, obj.d, None)
             IN Called("set_unit", f, None, r, IF r.exc = None THEN f ELSE obj.set_last)

\* obj.f of a value variant
UnionGet ==
    /\ Live /\ is_union_type(TypeOf(obj.cls))
    /\ \E f \in FieldNames :
          /\ HasField(obj.cls, f) /\ ~IsUnit(FieldOf(obj.cls, f).field)
          /\ Called("uget", f, None,
                    Call(module, obj.cls, Mro(module, obj.cls),
                         <<<<"@property">>, <<"def {}(self):", f>>>>, obj.d, None),
                    obj.set_last)

\* obj.f = val of a value variant
UnionSet ==
    /\ Live /\ is_union_type(TypeOf(obj.cls))
    /\ \E f \in FieldNames, val \in Vals :
          /\ HasField(obj.cls, f) /\ ~IsUnit(FieldOf(obj.cls, f).field)
          /\ LET r == Call(module, obj.cls, Mro(module, obj.cls),
                           <<<<"@{}.setter", f>>, <<"def {}(self, val):", f>>>>, obj.d, val)
             IN Called("uset", f, val, r, IF r.exc = None THEN f ELSE obj.set_last)

RunNext ==
    \/ New
    \/ CreateAndSet
    \/ StructGet
    \/ StructSet
    \/ StructDel
    \/ UnionIs
    \/ UnionSetUnit
    \/ UnionGet
    \/ UnionSet

SpecRun == RunInit /\ [][RunNext]_vars

(***************************************************************************)
(* docf on its own: one step per iteration of its loop.  The doc strings   *)
(* are built from a few fragments: plain text and one tag of each kind,    *)
(* the link tag with and without a space in its value.                     *)
(***************************************************************************)
MaxFrags == 3

T_code == <<"c", "o", "d", "e">>

\* the text :tag:<bq>val<bq>
Tag(tag, val) == <<":">> \o tag \o <<":", BQ>> \o val \o <<BQ>>

Frags == {
    <<"s", "e", "e", " ">>,
    Tag(T_route, <<"x">>),
    Tag(T_struct, <<"A">>),
    Tag(T_link, <<"d", " ", "u">>),
    Tag(T_link, <<"a", " ", "b", " ", "u">>),
    Tag(T_link, <<"u">>),
    Tag(T_val, <<"v">>),
    Tag(T_code, <<"x">>) }

RECURSIVE DocsOfLen(_)
DocsOfLen(n) ==
    IF n = 0 THEN {<<>>}
    ELSE {d \o f : d \in DocsOfLen(n - 1), f \in Frags}

Docs == UNION {DocsOfLen(n) : n \in 0..MaxFrags}

DocInit ==
    /\ doc_in \in Docs
    /\ doc = doc_in
    /\ doc_it = <<>>
    /\ doc_pc = "start"
    /\ api = [data_types |-> <<>>, routes |-> <<>>]
    /\ out = <<>>
    /\ pc = [state |-> "docf", t |-> 1, r |-> 1]
    /\ gen_err = None
    /\ obj = Idle /\ last = Idle /\ prev = Idle /\ module = <<>>
    /\ synth = Idle
    /\ self_lineno = 1 /\ earlier = NoRun

NotDoc == UNCHANGED <<api, out, pc, obj, last, prev, doc_in, module, synth,
                      self_lineno, earlier>>

\* if not doc: return
DocfEmpty ==
    /\ doc_pc = "start"
    /\ doc = <<>>
    /\ doc_pc' = "returned"
    /\ UNCHANGED <<doc, doc_it, gen_err>>
    /\ NotDoc

\* for match in doc_sub_tag_re.finditer(doc): the iterator is made once, on
\* the doc as passed
DocfFinditer ==
    /\ doc_pc = "start"
    /\ doc # <<>>
    /\ doc_it' = finditer(doc, 1)
    /\ doc_pc' = "loop"
    /\ UNCHANGED <<doc, gen_err>>
    /\ NotDoc

\* one iteration of the loop
DocfStep ==
    /\ doc_pc = "loop"
    /\ doc_it # <<>>
    /\ LET r == docf_step(doc, Head(doc_it)) IN
       IF r.err # None
       THEN /\ doc_pc' = "raised"
            /\ gen_err' = r.err
            /\ UNCHANGED <<doc, doc_it>>
       ELSE /\ doc' = r.doc
            /\ doc_it' = Tail(doc_it)
            /\ UNCHANGED <<doc_pc, gen_err>>
    /\ NotDoc

\* return doc
DocfReturn ==
    /\ doc_pc = "loop"
    /\ doc_it = <<>>
    /\ doc_pc' = "returned"
    /\ UNCHANGED <<doc, doc_it, gen_err>>
    /\ NotDoc

DocNext ==
    \/ DocfEmpty
    \/ DocfFinditer
    \/ DocfStep
    \/ DocfReturn

SpecDoc == DocInit /\ [][DocNext]_vars

(***************************************************************************)
(* Properties of docf                                                      *)
(***************************************************************************)
\* p occurs in s
Contains(s, p) == \E i \in 1..(Len(s) + 1) : StartsWithAt(s, i, p)

\* the rendering the documentation of docf gives for one tag, by its kind
Counterpart(m) ==
    IF m.tag = T_struct THEN <<":", "c", "l", "a", "s", "s", ":", BQ>> \o m.val \o <<BQ>>
    ELSE IF m.tag = T_route THEN m.val
    ELSE IF m.tag = T_link
    THEN LET sp == {i \in 1..Len(m.val) : m.val[i] = " "}
             k  == IF sp = {} THEN 0 ELSE Max(sp)
         IN <<BQ>> \o SubSeq(m.val, 1, k - 1) \o <<" ", "<">>
                   \o SubSeq(m.val, k + 1, Len(m.val)) \o <<">", BQ, "_">>
    ELSE IF m.tag = T_val THEN <<"'">> \o m.val \o <<"'">>
    ELSE <<BQ, BQ>> \o m.val \o <<BQ, BQ>>

\* one scan of s from i, left to right: every tag gives way to its counterpart
RECURSIVE Rewritten(_, _)
Rewritten(s, i) ==
    IF i > Len(s) THEN <<>>
    ELSE LET m == MatchAt(s, i)
         IN IF m = <<>> THEN <<s[i]>> \o Rewritten(s, i + 1)
            ELSE Counterpart(m[1]) \o Rewritten(s, i + Len(m[1].text))

LinkTags(s) == {m \in {finditer(s, 1)[i] : i \in DOMAIN finditer(s, 1)} : m.tag = T_link}

\* C8: docf replaces every tag of its input by the counterpart of its kind
\* (a route tag by its bare value), and what it returns holds no text of the
\* form :tag:<bq>value<bq> any more.
C8_EveryTagReplaced ==
    /\ doc_pc # "raised"
    /\ doc_pc = "returned" =>
          /\ doc = Rewritten(doc_in, 1)
          /\ finditer(doc, 1) = <<>>

\* C9: for every link tag of the doc, whatever its value, docf ends without
\* an error and has rewritten the tag to <bq>anchor <url><bq>_, anchor and url
\* being the value split at its last space.
C9_LinkRewrittenWithoutError ==
    /\ (doc_pc = "raised" => LinkTags(doc_in) = {})
    /\ doc_pc = "returned" =>
          \A m \in LinkTags(doc_in) : Contains(doc, Counterpart(m))

(***************************************************************************)
(* Properties of the generation                                            *)
(***************************************************************************)
\* data type i has been generated completely
Completed(i) == i < pc.t

ClassOfType(t) == _class_name_for_data_type(t.name)

\* the value the class body of C binds to the variable written name
ValidatorOf(mod, C, name) ==
    LET k == ClassLine(mod, C)
        S == {i \in (k + 1)..BlockEnd(mod, k) :
                 /\ mod[i].ind = 1
                 /\ mod[i].code[1] = "__{}_data_type = {}"
                 /\ "__" \o mod[i].code[2] \o "_data_type" = name}
    IN IF S = {} THEN "NameError" ELSE mod[Max(S)].code[3]

\* the tuples written on the lines j..e of the list display of _fields_
RECURSIVE FieldTuples(_, _, _, _)
FieldTuples(mod, C, j, e) ==
    IF j > e THEN <<>>
    ELSE (IF mod[j].code[1] = "('{}', {}, {}),"
          THEN << <<mod[j].code[2], mod[j].code[3], ValidatorOf(mod, C, mod[j].code[4])>> >>
          ELSE <<>>) \o FieldTuples(mod, C, j + 1, e)

\* the value of C._fields_ once the module is loaded
RECURSIVE EvalFields(_, _)
EvalFields(mod, C) ==
    LET k == ClassLine(mod, C)
        S == {i \in (k + 1)..BlockEnd(mod, k) :
                 mod[i].ind = 1 /\ mod[i].code[1] \in
                    {"_fields_ = [", "_fields_ = {}._fields_ + ["}}
        at == Max(S)
    IN IF k = 0 \/ S = {} THEN <<>>
       ELSE (IF mod[at].code[1] = "_fields_ = [" THEN <<>>
             ELSE EvalFields(mod, mod[at].code[2]))
            \o FieldTuples(mod, C, at + 1, BlockEnd(mod, at))

\* the value of C._field_names_ once the module is loaded
RECURSIVE EvalFieldNames(_, _)
EvalFieldNames(mod, C) ==
    LET k == ClassLine(mod, C)
        S == {i \in (k + 1)..BlockEnd(mod, k) :
                 mod[i].ind = 1 /\ mod[i].code[1] \in
                    {"_field_names_ = {", "_field_names_ = %s._field_names_.union({"}}
        at == Max(S)
    IN IF k = 0 \/ S = {} THEN {}
       ELSE (IF mod[at].code[1] = "_field_names_ = {" THEN {}
             ELSE EvalFieldNames(mod, mod[at].code[2]))
            \cup {mod[j].code[2] : j \in {i \in (at + 1)..BlockEnd(mod, at) :
                                             mod[i].code[1] = "'{}',"}}

\* what the schema says of a list of fields: name, optional, validator
Described(fields) ==
    [i \in DOMAIN fields |->
        <<format_variable(fields[i].name), PyBool(fields[i].optional),
          _determine_validator_type(fields[i].data_type)>>]

SuperOf(t) ==
    api.data_types[CHOOSE j \in DOMAIN api.data_types :
                      api.data_types[j].name = t.super_type]

ExtendingStructs ==
    {i \in DOMAIN api.data_types :
        /\ is_struct_type(api.data_types[i])
        /\ api.data_types[i].super_type # None
        /\ Completed(i)}

HasDuplicate(fields) ==
    \E i, j \in DOMAIN fields : i # j /\ fields[i].name = fields[j].name

DeclaredIn(mod, t) ==
    \E j \in DOMAIN mod : mod[j].code = _class_declaration_for_data_type(t)

\* C6: a struct one of whose own field names occurs twice in its combined
\* (inherited and own) field list is rejected: no class is emitted for it.
C6_CollisionRejected ==
    \A i \in DOMAIN api.data_types :
        (/\ is_struct_type(api.data_types[i])
         /\ HasDuplicate(all_fields(api.data_types, api.data_types[i])))
        => ~DeclaredIn(out, api.data_types[i])

\* C2: when generation aborts on a union that declares a super type, the
\* output holds no line of that union, its class declaration least of all.
C2_RejectedBeforeAnyOutput ==
    (/\ pc.state = "aborted"
     /\ is_union_type(api.data_types[pc.t])
     /\ api.data_types[pc.t].super_type # None)
    => ~DeclaredIn(out, api.data_types[pc.t])

\* the top-level statements of the module, in order
Decls(mod) == SelectSeq(mod, LAMBDA l : l.ind = 0 /\ ~IsBlank(l))

ExpectedDecls ==
    << base[1] >>
    \o [i \in DOMAIN api.data_types |->
          [ind |-> 0, code |-> _class_declaration_for_data_type(api.data_types[i])]]
    \o [i \in DOMAIN api.routes |->
          [ind |-> 0,
           code |-> <<"class {}Route(object):", format_class(api.routes[i].name)>>]]

IsPrefix(a, b) == Len(a) <= Len(b) /\ a = SubSeq(b, 1, Len(a))

OnStruct == obj # Idle /\ is_struct_type(TypeOf(obj.cls))
OnUnion  == obj # Idle /\ is_union_type(TypeOf(obj.cls))

\* the attribute that tells whether field f of obj is set
HasFlag(f) == Mangle(FieldOf(obj.cls, f).cls, "__has_" \o f)

\* obj.f, read now
ReadNow(f) ==
    Call(module, obj.cls, Mro(module, obj.cls),
         <<<<"@property">>, <<"def {}(self):", f>>>>, obj.d, None)

\* C1: for an optional field of a struct, writing None leaves the field
\* unset, and reading the field while it is unset returns the default the
\* schema declares for it, or None when it declares none.
C1_OptionalClearAndDefault ==
    (OnStruct /\ last.op \in {"set", "get"} /\ FieldOf(obj.cls, last.f).field.optional) =>
        /\ (last.op = "set" /\ last.val = None) =>
              (last.exc = None /\ obj.d[HasFlag(last.f)] = "False")
        /\ (last.op = "get" /\ obj.d[HasFlag(last.f)] = "False") =>
              /\ last.exc = None
              /\ last.ret = IF FieldOf(obj.cls, last.f).field.has_default
                            THEN FieldOf(obj.cls, last.f).field.default
                            ELSE None

\* C7: writing a value that passes validation to a required field of a
\* struct succeeds, reading the field then returns that value, and the value
\* and the set flag of every other field are what they were before the write.
C7_RequiredWriteThenRead ==
    (/\ OnStruct /\ last.op = "set" /\ last.val \in Accepted
     /\ ~FieldOf(obj.cls, last.f).field.optional) =>
        /\ last.exc = None
        /\ ReadNow(last.f).exc = None
        /\ ReadNow(last.f).ret = last.val
        /\ DOMAIN obj.d = DOMAIN prev
        /\ \A n \in DOMAIN prev \ {"_" \o last.f, HasFlag(last.f)} : obj.d[n] = prev[n]

\* a required field written while another field of the instance was set
C7_Witness ==
    /\ OnStruct /\ last.op = "set" /\ last.val \in Accepted
    /\ ~FieldOf(obj.cls, last.f).field.optional
    /\ \E g \in FieldNames \ {last.f} :
          /\ HasField(obj.cls, g)
          /\ HasFlag(g) \in DOMAIN prev
          /\ prev[HasFlag(g)] = "True"
          /\ prev["_" \o g] \in Accepted
          /\ prev["_" \o g] # last.val

UnionFields == {f \in FieldNames : HasField(obj.cls, f)}

\* obj.is_f(), asked now
Active(f) ==
    Call(module, obj.cls, Mro(module, obj.cls),
         <<<<>>, <<"def is_{}(self):", f>>>>, obj.d, None).ret = "True"

\* C3: an instance of a union is unset (no is_<variant>() is true) or has
\* exactly one active variant, the one set last; reading a value variant
\* that is not the active one raises KeyError, so after set_Y() of a unit
\* variant Y, is_Y() is true, is_X() is false and reading X fails.
C3_OneActiveVariant ==
    OnUnion =>
        /\ \A f \in UnionFields : Active(f) <=> obj.set_last = f
        /\ \A f \in UnionFields :
              (~IsUnit(FieldOf(obj.cls, f).field) /\ ~Active(f)) =>
                  ReadNow(f).exc = "KeyError"
        /\ (last.op = "uget" /\ ~Active(last.f)) => last.exc = "KeyError"
        /\ (last.op = "set_unit") => (last.exc = None /\ Active(last.f))

\* after set_Y() and then set_Z() of two unit variants, reading the value
\* variant X has raised KeyError
C3_Witness ==
    /\ OnUnion
    /\ last.op = "uget" /\ last.exc = "KeyError"
    /\ obj.set_last # None /\ obj.set_last # last.f
    /\ Active(obj.set_last)
    /\ \E g \in UnionFields \ {obj.set_last, last.f} : ~Active(g)

\* C4: the setter of a value variant of a union validates the payload; when
\* the payload passes, the payload is stored and the tag is that variant;
\* when it does not, the call raises and the tag and the payloads are what
\* they were before the call.
C4_ValueSetterAtomic ==
    (OnUnion /\ last.op = "uset") =>
        IF last.val \in Accepted
        THEN /\ last.exc = None
             /\ obj.d["_" \o last.f] = last.val
             /\ obj.d["_tag"] = PyRepr(last.f)
        ELSE /\ last.exc # None
             /\ obj.d = prev

(***************************************************************************)
(* Validator attributes of the emitted classes                             *)
(***************************************************************************)
\* the validator attributes line j refers to: in the reflection metadata, or
\* in a setter (self.__<field>_data_type)
ValidatorUses(mod, j) ==
    VarRefs(mod, j)
    \cup (IF mod[j].code[1] \in {"self.__{}_data_type.validate(val)",
                                 "self.__{}_data_type.validate_type_only(val)"}
          THEN {"__" \o mod[j].code[2] \o "_data_type"}
          ELSE {})

\* C13: every validator attribute __<field>_data_type that a line of an
\* emitted class refers to, in its reflection metadata or in a setter, is
\* defined by a line emitted for that same class, for unions as for structs.
C13_ValidatorAttributesDefined ==
    \A j \in DOMAIN out : \A v \in ValidatorUses(out, j) :
        ValidatorOf(out, out[Owner(out, j)].code[2], v) # "NameError"


(***************************************************************************)
(* _determine_validator_type call by call.  The data types of a schema     *)
(* form a cyclic object graph: a field's data_type is the composite        *)
(* object itself.  Here a composite is known by its name and RecFields     *)
(* gives its fields.                                                       *)
(***************************************************************************)
MaxNest == 3      \* lists of lists of ... given to the synthesizer
MaxDepth == 6     \* the interpreter's recursion limit, in frames

UnionRef(n) == [kind |-> "union", name |-> n]
TimestampT == [kind |-> "timestamp", name |-> "Timestamp", format |-> "%Y"]
BooleanT == [kind |-> "boolean", name |-> "Boolean"]

\* struct A refers to itself and, through a list, to union B;
\* union B refers to struct A and to itself
RecFields(n) ==
    CASE n = "A" -> << Field("a", StructRef("A"), TRUE, FALSE, None, None),
                       Field("b", ListT(UnionRef("B")), FALSE, FALSE, None, None),
                       Field("c", StringT, FALSE, FALSE, None, None) >>
      [] n = "B" -> << Field("x", StructRef("A"), FALSE, FALSE, None, None),
                       Field("y", UnionRef("B"), FALSE, FALSE, None, None),
                       Field("z", SymbolT, FALSE, FALSE, None, None) >>
      [] OTHER -> << >>

RECURSIVE NestedTypes(_)
NestedTypes(n) ==
    IF n = 0
    THEN {StringT, Int32T, TimestampT, BooleanT, SymbolT, AnyT,
          StructRef("A"), UnionRef("B")}
    ELSE NestedTypes(n - 1) \cup {ListT(e) : e \in NestedTypes(n - 1)}

RECURSIVE ListDepth(_)
ListDepth(data_type) ==
    IF is_list_type(data_type) THEN 1 + ListDepth(data_type.data_type) ELSE 0

\* the calls of itself one execution of the body makes, descending into the
\* fields of a struct or union as well
_determine_validator_type_calls_fields(data_type) ==
    IF is_list_type(data_type) THEN << data_type.data_type >>
    ELSE IF is_composite_type(data_type)
    THEN [i \in DOMAIN RecFields(data_type.name) |->
             RecFields(data_type.name)[i].data_type]
    ELSE << >>

\* the calls of itself one execution of the body makes
_determine_validator_type_calls(data_type) ==
    IF is_list_type(data_type) THEN << data_type.data_type >> ELSE << >>

\* what the body returns, given what its own calls returned
_determine_validator_type_return(data_type, got) ==
    IF is_list_type(data_type)
    THEN "dt.List(" \o _func_args_from_dict(<<
             <<"data_type", got[1]>>,
             <<"min_length", data_type.min_items>>,
             <<"max_length", data_type.max_items>> >>) \o ")"
    ELSE _determine_validator_type(data_type)

Frame(data_type) ==
    [data_type |-> data_type,
     todo |-> _determine_validator_type_calls(data_type),
     got |-> << >>]

ValInit ==
    /\ api = [name |-> "ns", doc |-> None, data_types |-> <<>>, routes |-> <<>>]
    /\ out = <<>> /\ gen_err = None
    /\ pc = [state |-> "validator", t |-> 1, r |-> 1]
    /\ obj = Idle /\ last = Idle /\ prev = Idle /\ module = <<>>
    /\ doc = <<>> /\ doc_in = <<>> /\ doc_it = <<>> /\ doc_pc = "idle"
    /\ \E data_type \in NestedTypes(MaxNest) :
           synth = [pc |-> "running", arg |-> data_type,
                    stack |-> << Frame(data_type) >>, calls |-> 1,
                    result |-> None]
    /\ self_lineno = 1 /\ earlier = NoRun

NotVal == UNCHANGED <<api, out, pc, gen_err, obj, last, prev,
                      doc, doc_in, doc_it, doc_pc, module,
                      self_lineno, earlier>>

\* the body reaches a call of itself: a new frame, or RuntimeError
\* (maximum recursion depth exceeded) when the stack is full
ValCall ==
    /\ synth.pc = "running"
    /\ synth.stack # << >>
    /\ LET n == Len(synth.stack)
           top == synth.stack[n]
       IN /\ top.todo # << >>
          /\ IF n >= MaxDepth
             THEN synth' = [synth EXCEPT !.pc = "raised"]
             ELSE synth' = [synth EXCEPT
                      !.stack = Append([synth.stack EXCEPT
                                           ![n].todo = Tail(top.todo)],
                                       Frame(Head(top.todo))),
                      !.calls = synth.calls + 1]
    /\ NotVal

\* the body returns to its caller
ValReturn ==
    /\ synth.pc = "running"
    /\ synth.stack # << >>
    /\ LET n == Len(synth.stack)
           top == synth.stack[n]
           r == _determine_validator_type_return(top.data_type, top.got)
       IN /\ top.todo = << >>
          /\ IF n = 1
             THEN synth' = [synth EXCEPT !.pc = "returned", !.stack = << >>,
                                         !.result = r]
             ELSE synth' = [synth EXCEPT
                      !.stack = [SubSeq(synth.stack, 1, n - 1) EXCEPT
                                    ![n - 1].got = Append(synth.stack[n - 1].got, r)]]
    /\ NotVal

ValNext == ValCall \/ ValReturn

\* a call in progress keeps running: nothing else is scheduled
SpecVal == ValInit /\ [][ValNext]_vars /\ WF_vars(ValNext)

\* C12: validator synthesis terminates for every type, structs and unions
\* that refer to themselves or to each other included: it never exhausts the
\* stack, it makes one call per list level and none for the fields of a
\* struct or union, and a struct or union maps to a reference by class name.
C12_SynthesisTerminates ==
    /\ <>(synth.pc = "returned")
    /\ [](synth.pc # "raised")
    /\ [](synth.calls <= 1 + ListDepth(synth.arg))
    /\ [](synth.pc = "returned" =>
            /\ synth.calls = 1 + ListDepth(synth.arg)
            /\ synth.result = _determine_validator_type(synth.arg)
            /\ is_struct_type(synth.arg) =>
                   synth.result = "dt.Struct(" \o format_class(synth.arg.name) \o ")"
            /\ is_union_type(synth.arg) =>
                   synth.result = "dt.Union(" \o format_class(synth.arg.name) \o ")")

\* a list of the self-referential struct A has been synthesized in two calls
C12_Witness ==
    /\ synth.pc = "returned"
    /\ synth.arg = ListT(StructRef("A"))
    /\ \E i \in DOMAIN RecFields("A") : RecFields("A")[i].data_type = synth.arg.data_type
    /\ synth.calls = 2
    /\ synth.result = "dt.List(data_type=dt.Struct(A), max_length=2)"

(* Generation run twice *)
HasLine(code) == \E j \in DOMAIN out : out[j].code[1] = code

\* C11: a run of generate that follows an earlier run on the same schema
\* model writes the same line sequence as the earlier run: at every moment
\* what it has written is a prefix of the earlier output, it does not fail,
\* the schema model is the one the earlier run was given, and when it
\* returns the two outputs are identical, whatever the emitter's line
\* counter was when it started.
C11_SecondRunIdentical ==
    earlier.n > 0 =>
        /\ api = earlier.api
        /\ gen_err = None
        /\ IsPrefix(out, earlier.out)
        /\ pc.state = "done" => out = earlier.out

\* a second run has returned whose emitter went on counting from the first
\* run, on a schema with a struct without fields and a struct with fields
C11_Witness ==
    /\ earlier.n = 1
    /\ pc.state = "done"
    /\ self_lineno = earlier.start + Len(out)
    /\ earlier.start > 1
    /\ out = earlier.out
    /\ HasLine("pass")
    /\ HasLine("__{}_data_type = {}")
    /\ HasLine("self.__has_{} = False")

============================================================================
